---- MODULE Spec2Model ----
(***************************************************************************)
(* State-machine model of the Wordle players of this repository:           *)
(*   L0Main  Level0WordleAgent of src/main.py                              *)
(*   L0      Level0WordleAgent of src/level_0_wordle_agent.py              *)
(*   AIW     run / play_round of src/wordle-ai-workflow/main.py            *)
(*   WW      WordleWorkflow of src/wordle_workflow.py                      *)
(*   L1      Level1WordleAgent of src/level_1_wordle_agent.py              *)
(*   L1Main  Level1WordleAgent of src/main.py                              *)
(*   L2      Level2WordleAgent of src/level_2_wordle_agent.py              *)
(* and of the functions that are called on their own: check_game_won /     *)
(* is_game_won on every result string, the word parsers on every text.     *)
(* The page (30 tiles, the on-screen keyboard) and the LLM are the         *)
(* environment: the LLM's answers and the game's verdict on a submitted    *)
(* row are chosen nondeterministically from small sets.                    *)
(***************************************************************************)
EXTENDS Naturals, Integers, Sequences, FiniteSets, TLC

VARIABLES
    agent,          \* which program is running
    page,           \* the Wordle page: evaluated rows and the letters typed
    guess_history,  \* GameState.guess_history / guess_history of run / WordleWorkflow.game_state
    current_round,  \* GameState.current_round / guess_count of run
    game_won,       \* GameState.game_won / game_won of run
    game_status,    \* WordleWorkflow.game_status
    stack,          \* active play_round calls, innermost last
    iteration,      \* iteration of Level1WordleAgent.run
    outcome,        \* "running", then the summary run logged or the exception that ended it
    reason,         \* why Level1WordleAgent.run left its loop
    rejected,       \* number of submissions of a word-selection session the game
                    \* rejected, saturating at MaxRejected
    content,        \* response.output_text handed to the word parsers
    parsed,         \* what each word parser made of content
    result_str,     \* the result string handed to check_game_won / is_game_won
    won_ret,        \* what check_game_won / is_game_won returned
    llm_calls,      \* number of call_llm calls run of a structured-action agent made
    board_reads,    \* what the board readers returned to a structured-action agent so
                    \* far: the result strings, and the most rows a read returned
                    \* with no 'ccccc' among them
    action_history, \* number of entries of Level2WordleAgent.action_history
    tile_read,      \* read_game_state / read_guess_result called on its own: the
                    \* data-state of the tiles found, row_index, the string returned
    clicking,       \* click_word / clear_word called on its own: the word, the
                    \* selectors the page has, the wait_and_click calls made and
                    \* the clicks that reached the page
    action_parse    \* parse_action of src/main.py called on its own: the action
                    \* string and what the call made of it

\* the input and output of the functions that are called on their own
callvars == <<tile_read, clicking, action_parse>>
fnvars == <<content, parsed, result_str, won_ret, callvars>>

\* what only the structured-action agents change
histvars == <<board_reads, action_history>>

vars == <<agent, page, guess_history, current_round, game_won, game_status,
          stack, iteration, outcome, reason, rejected, fnvars, llm_calls, histvars>>

(***************************************************************************)
(* Bounds of the model                                                     *)
(***************************************************************************)
\* deepest nesting of play_round calls explored; one more call raises
\* RecursionError (the interpreter's recursion limit)
MaxDepth == 4
\* the game rejects at most MaxRejected submissions of a recursive
\* play_round session; also the saturation value of the counter rejected
MaxRejected == 2
\* most records with a 'u' result the LLM of a Level1WordleAgent session
\* makes update_game_state append
MaxUnknownRecords == 1
\* most lines of an LLM text handed to the word parsers
MaxLines == 2
\* the most tiles the locator finds when the row reader is called on its own
MaxTiles == 10
\* the greatest row_index the row reader is called with on its own
MaxRowIndex == 2

(***************************************************************************)
(* Program constants                                                       *)
(***************************************************************************)
max_guesses == 6
NumRows == 6

None == "None"

\* result strings are sequences of characters
ccccc == <<"c", "c", "c", "c", "c">>
uuuuu == <<"u", "u", "u", "u", "u">>

\* words are sequences of letters
crane == <<"c", "r", "a", "n", "e">>
slope == <<"s", "l", "o", "p", "e">>
budgy == <<"b", "u", "d", "g", "y">>
quiet == <<"q", "u", "i", "e", "t">>
\* a word str.isalpha() accepts that has no key on the keyboard ("naïve")
naive == <<"n", "a", "i-diaeresis", "v", "e">>
\* a candidate that is not 5 letters long
cran == <<"c", "r", "a", "n">>

fallback_word == slope

\* the keys button[data-key=...] of the on-screen keyboard
Keys == {"a", "b", "c", "d", "e", "f", "g", "h", "i", "j", "k", "l", "m",
         "n", "o", "p", "q", "r", "s", "t", "u", "v", "w", "x", "y", "z"}

Contains(seq, ch) == \E i \in 1..Len(seq) : seq[i] = ch

Min(a, b) == IF a < b THEN a ELSE b

Last(seq) == seq[Len(seq)]

Front(seq) == SubSeq(seq, 1, Len(seq) - 1)

(***************************************************************************)
(* The page: tiles and keyboard                                            *)
(***************************************************************************)
\* the verdicts of the game on a complete row: the data-state of each tile,
\* or Reject (not in the word list: the row stays tbd)
AllCorrect == <<"correct", "correct", "correct", "correct", "correct">>
Mixed == <<"correct", "present", "absent", "absent", "absent">>
Reject == <<"tbd", "tbd", "tbd", "tbd", "tbd">>
Verdicts == {Reject, AllCorrect, Mixed}

\* the page holds the evaluated rows, in order, and the letters typed into
\* the row the game is filling
EmptyPage == [rows |-> <<>>, typed |-> <<>>]

EmptyTile == [text |-> "", data_state |-> "empty"]

\* page.locator('div[class*="Tile-module_tile"]').all(): 6 rows of 5 tiles;
\* tiles(p, i) is the i-th tile (from 1) and NumTiles their number
NumTiles == NumRows * 5

tiles(p, i) ==
    LET r == (i - 1) \div 5
        k == ((i - 1) % 5) + 1
    IN  IF r < Len(p.rows)
        THEN [text |-> p.rows[r + 1].text[k],
              data_state |-> p.rows[r + 1].data_state[k]]
        ELSE IF r = Len(p.rows) /\ k <= Len(p.typed)
             THEN [text |-> p.typed[k], data_state |-> "tbd"]
             ELSE EmptyTile

\* the game takes no input once it is won or all rows are used
GameOver(p) ==
    \/ Len(p.rows) = NumRows
    \/ Len(p.rows) > 0 /\ p.rows[Len(p.rows)].data_state = AllCorrect

\* one click on button[data-key="<letter>"]; wait_and_click returns False
\* and nothing is typed when the keyboard has no such key
PressKey(p, letter) ==
    IF GameOver(p) \/ letter \notin Keys \/ Len(p.typed) = 5 THEN p
    ELSE [p EXCEPT !.typed = Append(@, letter)]

\* one click on the Enter key; verdict is the game's answer to a complete row
PressEnter(p, verdict) ==
    IF GameOver(p) \/ Len(p.typed) # 5 \/ verdict = Reject THEN p
    ELSE [rows |-> Append(p.rows, [text |-> p.typed, data_state |-> verdict]),
          typed |-> <<>>]

\* one click on the backspace key
PressBackspace(p) ==
    IF GameOver(p) \/ p.typed = <<>> THEN p
    ELSE [p EXCEPT !.typed = SubSeq(@, 1, Len(@) - 1)]

RECURSIVE TypeLetters(_, _)
TypeLetters(p, word) ==
    IF word = <<>> THEN p
    ELSE LET q == PressKey(p, Head(word)) IN TypeLetters(q, Tail(word))

\* click_word: one key per letter, then Enter
click_word(p, word, verdict) ==
    LET q == TypeLetters(p, word) IN PressEnter(q, verdict)

\* clear_word: backspace 5 times
clear_word(p) ==
    LET p1 == PressBackspace(p)
        p2 == PressBackspace(p1)
        p3 == PressBackspace(p2)
        p4 == PressBackspace(p3)
    IN  PressBackspace(p4)

TileChar(data_state) ==
    CASE data_state = "correct" -> "c"
      [] data_state = "present" -> "p"
      [] data_state = "absent" -> "a"
      [] OTHER -> "u"

\* read_guess_result without the test of the number of tiles:
\* tiles[start_index:end_index] is as long as the tiles that are there
read_guess_result_NoLengthCheck(tile_states, row_index) ==
    LET start_index == row_index * 5
        end_index == Min(start_index + 5, Len(tile_states))
    IN  [i \in 1..(IF end_index > start_index THEN end_index - start_index ELSE 0) |->
            TileChar(tile_states[start_index + i])]

\* read_game_state / read_guess_result on the tiles the locator found, given
\* by their data-state attributes ("" for a tile without the attribute)
read_guess_result(tile_states, row_index) ==
    LET start_index == row_index * 5
        end_index == start_index + 5
    IN  IF Len(tile_states) < end_index THEN uuuuu
        ELSE [i \in 1..5 |-> TileChar(tile_states[start_index + i])]

\* the data-state attributes of the tiles of the page
data_states(p) == [i \in 1..NumTiles |-> tiles(p, i).data_state]

\* read_game_state / read_guess_result on the page
read_game_state(p, row_index) == read_guess_result(data_states(p), row_index)

\* the word and the result read_game_board builds from the r-th row of
\* tiles (from 0)
RowWord(p, r) ==
    LET text == [k \in 1..5 |-> tiles(p, 5 * r + k).text]
    IN  SelectSeq(text, LAMBDA letter : letter # "")

RowResult(p, r) == [k \in 1..5 |-> TileChar(tiles(p, 5 * r + k).data_state)]

\* WordleWorkflow.read_game_board: the (word, result) of every row of tiles
\* whose text is 5 letters long
read_game_board(p) ==
    LET board == [r \in 1..(NumTiles \div 5) |-> <<RowWord(p, r - 1), RowResult(p, r - 1)>>]
    IN  SelectSeq(board, LAMBDA rec : Len(rec[1]) = 5)

\* a faulty variant: the last tile is not looked at
check_game_won_FirstFour(result) == \A i \in 1..4 : result[i] = "c"

check_game_won(result) == result = ccccc

\* is_game_won of src/wordle-ai-workflow/main.py
is_game_won(result) == result = ccccc

\* any(tile_result == 'u' for tile_result in result)
HasUnknown(result) == Contains(result, "u")

(***************************************************************************)
(* LLM text and the word parsers                                           *)
(* A text is a sequence of lines (content.split('\n')), a line a sequence  *)
(* of characters; <<>> is the empty string.                                *)
(***************************************************************************)
UpperCase ==
    <<"A", "B", "C", "D", "E", "F", "G", "H", "I", "J", "K", "L", "M", "N",
    "O", "P", "Q", "R", "S", "T", "U", "V", "W", "X", "Y", "Z">>
LowerCase ==
    <<"a", "b", "c", "d", "e", "f", "g", "h", "i", "j", "k", "l", "m", "n",
    "o", "p", "q", "r", "s", "t", "u", "v", "w", "x", "y", "z">>

\* a letter that has no case (str.isalpha() is True, str.lower() keeps it)
Uncased == {"aleph"}
\* [a-zA-Z]
AsciiLetters == Keys \cup {UpperCase[i] : i \in 1..26}
\* the characters str.isalpha() accepts
Alpha == AsciiLetters \cup {"i-diaeresis"} \cup Uncased
\* \w of the re module: letters, digits, underscore
WordChars == Alpha \cup {"0", "1", "2", "3", "4", "5", "6", "7", "8", "9", "_"}
Whitespace == {" "}

\* str.isalpha(): Unicode letters, not only the 26 keys
isalpha(word) == Len(word) > 0 /\ \A i \in 1..Len(word) : word[i] \in Alpha

\* str.lower() of one character
lower_char(ch) ==
    IF \E k \in 1..26 : UpperCase[k] = ch
    THEN LowerCase[CHOOSE k \in 1..26 : UpperCase[k] = ch]
    ELSE ch

\* str.lower()
RECURSIVE lower(_)
lower(s) == IF s = <<>> THEN <<>> ELSE <<lower_char(Head(s))>> \o lower(Tail(s))

\* str.strip()
strip(s) ==
    LET kept == {i \in 1..Len(s) : s[i] \notin Whitespace}
    IN  IF kept = {} THEN <<>>
        ELSE SubSeq(s, CHOOSE i \in kept : \A j \in kept : i <= j,
                       CHOOSE i \in kept : \A j \in kept : j <= i)

\* str.startswith()
startswith(s, prefix) ==
    Len(s) >= Len(prefix) /\ SubSeq(s, 1, Len(prefix)) = prefix

AnswerPrefix == <<"A", "N", "S", "W", "E", "R", ":">>

\* the lines an LLM text is made of
\* the marker line of the claim
Line_AnswerCrane == AnswerPrefix \o <<" ">> \o crane
\* another marker line
Line_AnswerSlate ==
    <<"A", "N", "S", "W", "E", "R", ":", " ", "s", "l", "a", "t", "e">>
\* a marker line with blanks and a capital
Line_AnswerQuiet ==
    <<" ", " ", "A", "N", "S", "W", "E", "R", ":", " ", " ", "Q", "u", "i",
      "e", "t", " ">>
\* a marker line whose word has a letter outside a-z
Line_AnswerNaive == AnswerPrefix \o <<" ">> \o naive
\* a marker line whose word is 5 letters that have no case
Line_AnswerAleph ==
    <<"A", "N", "S", "W", "E", "R", ":", " ", "aleph", "aleph", "aleph",
      "aleph", "aleph">>
\* a marker line whose word is 4 letters long
Line_AnswerCran == AnswerPrefix \o <<" ">> \o cran
\* a marker line whose word is not alphabetic
Line_AnswerBracket ==
    <<"A", "N", "S", "W", "E", "R", ":", " ", "[", "c", "r", "a", "n", "e",
      "]">>
\* no marker; 'would' and 'Slate' are standalone 5-letter tokens
Line_TrySlate ==
    <<"I", " ", "w", "o", "u", "l", "d", " ", "t", "r", "y", " ", "S", "l",
      "a", "t", "e", ".">>
\* no marker, no 5-letter token
Line_NoIdea ==
    <<"n", "o", " ", "i", "d", "e", "a">>
\* a blank line
Line_Blank ==
    <<" ">>
\* 5 letters glued to word characters: not standalone
Line_Glued ==
    <<"x", "_", "c", "r", "a", "n", "e", "9">>

Lines ==
    {Line_AnswerCrane,
     Line_AnswerSlate,
     Line_AnswerQuiet,
     Line_AnswerNaive,
     Line_AnswerAleph,
     Line_AnswerCran,
     Line_AnswerBracket,
     Line_TrySlate,
     Line_NoIdea,
     Line_Blank,
     Line_Glued}

\* the texts response.output_text can be: up to MaxLines lines
Texts == UNION {[1..n -> Lines] : n \in 0..MaxLines}

\* None in the place of a text (no API key, the request raised): a value
\* that is no member of Texts
NoContent == << <<None>> >>

\* not content: the text is the empty string
IsEmpty(text) == text = <<>> \/ text = << <<>> >>

\* line[7:].strip().lower() of a stripped line that starts with ANSWER:
AnswerWord(line) == lower(strip(SubSeq(line, 8, Len(line))))

\* the two tests of the loop body: the stripped line starts with ANSWER: and
\* what follows is 5 alphabetic characters
IsAnswerLine(raw) ==
    LET line == strip(raw)
    IN  /\ startswith(line, AnswerPrefix)
        /\ Len(AnswerWord(line)) = 5
        /\ isalpha(AnswerWord(line))

\* a faulty variant: the loop keeps the last valid word instead of returning
\* the first
LastAnswer(text) ==
    LET hits == {i \in 1..Len(text) : IsAnswerLine(text[i])}
    IN  IF hits = {} THEN None
        ELSE AnswerWord(strip(text[CHOOSE i \in hits : \A j \in hits : j <= i]))

\* the loop over content.strip().split('\n'): the word of the first line
\* that starts with ANSWER: and carries 5 alphabetic characters, None when
\* the loop ends without a return
FirstAnswer(text) ==
    LET hits == {i \in 1..Len(text) : IsAnswerLine(text[i])}
    IN  IF hits = {} THEN None
        ELSE AnswerWord(strip(text[CHOOSE i \in hits : \A j \in hits : i <= j]))

\* where \b[a-zA-Z]{5}\b matches in a line
TokenStarts(line) ==
    {i \in 1..(Len(line) - 4) :
        /\ \A k \in 0..4 : line[i + k] \in AsciiLetters
        /\ i = 1 \/ line[i - 1] \notin WordChars
        /\ i + 4 = Len(line) \/ line[i + 5] \notin WordChars}

\* re.findall(r'\b[a-zA-Z]{5}\b', content)[0], None when words is empty
FirstToken(text) ==
    LET hits == {i \in 1..Len(text) : TokenStarts(text[i]) # {}}
    IN  IF hits = {} THEN None
        ELSE LET line == text[CHOOSE i \in hits : \A j \in hits : i <= j]
                 start == CHOOSE i \in TokenStarts(line) : \A j \in TokenStarts(line) : i <= j
             IN  SubSeq(line, start, start + 4)

\* call_llm / call_llm_for_guess, given response.output_text; the text is
\* NoContent when the API key is missing or the request raises
call_llm(text) ==
    IF text = NoContent THEN None
    ELSE IF IsEmpty(text) THEN None
    ELSE IF FirstAnswer(text) # None THEN FirstAnswer(text)
    ELSE IF FirstToken(text) # None THEN lower(FirstToken(text))
    ELSE None

(***************************************************************************)
(* Word selection                                                          *)
(***************************************************************************)
\* what call_llm / call_llm_for_guess can return: None or a word
CallLLMResults == {None, crane}
CallLLMForGuessResults == {None, quiet}
\* what WordleWorkflow.call_llm can return: None, or a text whose ANSWER:
\* line carries "naïve" or "cran"
LLMResponses == {NoContent, <<Line_AnswerNaive>>, <<Line_AnswerCran>>}

\* a faulty variant: the word of call_llm is dropped
guess_word_AlwaysFallback(llm_word) == fallback_word

\* guess_word, given the return value of call_llm
guess_word(llm_word) ==
    IF llm_word # None /\ Len(llm_word) = 5 /\ isalpha(llm_word) THEN llm_word
    ELSE fallback_word

\* WordleWorkflow.parse_llm_response
parse_llm_response(llm_response) ==
    IF llm_response = NoContent THEN fallback_word
    ELSE IF IsEmpty(llm_response) THEN fallback_word
    ELSE IF FirstAnswer(llm_response) # None THEN FirstAnswer(llm_response)
    ELSE fallback_word

\* play_round of src/wordle-ai-workflow/main.py: the word it clicks, given
\* the return value of guess_word
play_round_word(guessed) == IF Contains(guessed, "u") THEN budgy ELSE guessed

\* a play_round call: its locals word and result, and its position: "read"
\* after the first read of the row, "reread" after a nested call returned
Frame(word, result) == [word |-> word, result |-> result, pc |-> "read"]

\* the caller of a returning nested call resumes with the row re-read
Resume(frames, result) ==
    [frames EXCEPT ![Len(frames)].result = result, ![Len(frames)].pc = "reread"]

\* the verdicts the game can give in a recursive play_round session
VerdictsLeft == IF rejected < MaxRejected THEN Verdicts ELSE {AllCorrect, Mixed}

\* the game's verdict is counted when it rejects a complete row
Count(p, verdict) ==
    IF verdict = Reject /\ Len(p.typed) = 5 /\ ~GameOver(p)
    THEN Min(rejected + 1, MaxRejected) ELSE rejected

(***************************************************************************)
(* Level0WordleAgent of src/main.py                                        *)
(***************************************************************************)
\* update_game_state(game_state, guess, result) of src/main.py
update_game_state(guess, result) ==
    /\ guess_history' = Append(guess_history, <<guess, result>>)
    /\ current_round' = current_round + 1
    /\ game_won' = check_game_won(result)

\* faulty variants of the loop condition: the win is not looked at; the
\* round limit is not looked at
LoopCondition_NoWinCheck == current_round < max_guesses
LoopCondition_NoRoundLimit == ~game_won

\* the loop condition of Level0WordleAgent.run and Level1WordleAgent.run
main_LoopCondition == ~game_won /\ current_round < max_guesses

\* get_llm_input of Level0WordleAgent (both files): the number written
\* into "There are ... guesses left."
guesses_left == max_guesses - current_round + 1

\* play_round up to the loop: guess_word, click_word, read_game_state of
\* the row current_round; the frame keeps the locals word and result
L0Main_Enter(p, llm_word, verdict) ==
    LET word == guess_word(llm_word)
        q == click_word(p, word, verdict)
        result == read_game_state(q, current_round)
    IN  /\ page' = q
        /\ stack' = Append(stack, Frame(word, result))
        /\ rejected' = Count(TypeLetters(p, word), verdict)

\* run: the loop condition holds, play_round is called
L0Main_RunCall ==
    /\ agent = "L0Main" /\ outcome = "running" /\ stack = <<>>
    /\ main_LoopCondition
    /\ \E llm_word \in CallLLMResults, verdict \in VerdictsLeft :
            L0Main_Enter(page, llm_word, verdict)
    /\ UNCHANGED <<fnvars, llm_calls, histvars, agent, guess_history, current_round, game_won, game_status,
                   iteration, outcome, reason>>

\* play_round, loop body: the result holds a 'u': clear_word, then the
\* nested play_round call
L0Main_Retry ==
    /\ agent = "L0Main" /\ outcome = "running" /\ stack # <<>>
    /\ HasUnknown(Last(stack).result)
    /\ IF Len(stack) >= MaxDepth
       THEN /\ outcome' = "RecursionError"
            /\ page' = clear_word(page)
            /\ UNCHANGED <<stack, rejected>>
       ELSE /\ \E llm_word \in CallLLMResults, verdict \in VerdictsLeft :
                    L0Main_Enter(clear_word(page), llm_word, verdict)
            /\ UNCHANGED outcome
    /\ UNCHANGED <<fnvars, llm_calls, histvars, agent, guess_history, current_round, game_won, game_status,
                   iteration, reason>>

\* play_round, after the loop: update_game_state and return; the caller
\* resumes at line 587 (its result is re-read) or, in run, at line 602
L0Main_Return ==
    /\ agent = "L0Main" /\ outcome = "running" /\ stack # <<>>
    /\ ~HasUnknown(Last(stack).result)
    /\ update_game_state(Last(stack).word, Last(stack).result)
    /\ stack' = IF Len(stack) = 1 THEN <<>>
                ELSE Resume(Front(stack), read_game_state(page, current_round'))
    /\ UNCHANGED <<fnvars, llm_calls, histvars, agent, page, game_status, iteration, outcome, reason, rejected>>

\* run: the loop condition fails, the summary is logged
L0Main_RunExit ==
    /\ agent = "L0Main" /\ outcome = "running" /\ stack = <<>>
    /\ ~main_LoopCondition
    /\ outcome' = IF game_won THEN "won" ELSE "lost"
    /\ UNCHANGED <<fnvars, llm_calls, histvars, agent, page, guess_history, current_round, game_won,
                   game_status, stack, iteration, reason, rejected>>

L0Main_Next == L0Main_RunCall \/ L0Main_Retry \/ L0Main_Return \/ L0Main_RunExit

(***************************************************************************)
(* Level0WordleAgent of src/level_0_wordle_agent.py                        *)
(***************************************************************************)
\* update_game_state(page, game_state, guess) of level_0_wordle_agent.py:
\* reads the row current_round and records the guess unless it holds a 'u'
L0_update_game_state(p, guess) ==
    LET result == read_game_state(p, current_round)
    IN  IF ~Contains(result, "u")
        THEN /\ guess_history' = Append(guess_history, <<guess, result>>)
             /\ current_round' = current_round + 1
        ELSE UNCHANGED <<guess_history, current_round>>

\* play_round up to the loop
L0_Enter(p, llm_word, verdict) ==
    LET word == guess_word(llm_word)
        q == click_word(p, word, verdict)
        result == read_game_state(q, current_round)
    IN  /\ page' = q
        /\ L0_update_game_state(q, word)
        /\ stack' = Append(stack, Frame(word, result))
        /\ rejected' = Count(TypeLetters(p, word), verdict)

\* run: the loop condition holds, play_round is called
L0_RunCall ==
    /\ agent = "L0" /\ outcome = "running" /\ stack = <<>>
    /\ current_round < max_guesses
    /\ \E llm_word \in CallLLMResults, verdict \in VerdictsLeft :
            L0_Enter(page, llm_word, verdict)
    /\ UNCHANGED <<fnvars, llm_calls, histvars, agent, game_won, game_status, iteration, outcome, reason>>

\* play_round, loop body: clear_word, then the nested play_round call
L0_Retry ==
    /\ agent = "L0" /\ outcome = "running" /\ stack # <<>>
    /\ HasUnknown(Last(stack).result)
    /\ IF Len(stack) >= MaxDepth
       THEN /\ outcome' = "RecursionError"
            /\ page' = clear_word(page)
            /\ UNCHANGED <<stack, rejected, guess_history, current_round>>
       ELSE /\ \E llm_word \in CallLLMResults, verdict \in VerdictsLeft :
                    L0_Enter(clear_word(page), llm_word, verdict)
            /\ UNCHANGED outcome
    /\ UNCHANGED <<fnvars, llm_calls, histvars, agent, game_won, game_status, iteration, reason>>

\* play_round, after the loop: return; the caller resumes at line 155
\* (update_game_state with the caller's word) or in run
L0_Return ==
    /\ agent = "L0" /\ outcome = "running" /\ stack # <<>>
    /\ ~HasUnknown(Last(stack).result)
    /\ IF Len(stack) = 1
       THEN /\ stack' = <<>>
            /\ UNCHANGED <<guess_history, current_round>>
       ELSE /\ stack' = Resume(Front(stack), read_game_state(page, current_round))
            /\ L0_update_game_state(page, stack[Len(stack) - 1].word)
    /\ UNCHANGED <<fnvars, llm_calls, histvars, agent, page, game_won, game_status, iteration, outcome, reason,
                   rejected>>

\* run: current_round reached max_guesses, the summary is logged
L0_RunExit ==
    /\ agent = "L0" /\ outcome = "running" /\ stack = <<>>
    /\ ~(current_round < max_guesses)
    /\ outcome' = IF guess_history # <<>> /\ Last(guess_history)[2] = ccccc
                  THEN "won" ELSE "lost"
    /\ UNCHANGED <<fnvars, llm_calls, histvars, agent, page, guess_history, current_round, game_won,
                   game_status, stack, iteration, reason, rejected>>

L0_Next == L0_RunCall \/ L0_Retry \/ L0_Return \/ L0_RunExit

(***************************************************************************)
(* run / play_round of src/wordle-ai-workflow/main.py                      *)
(* current_round is guess_count of run; every nested play_round call gets  *)
(* the same guess_count                                                    *)
(***************************************************************************)
\* play_round up to the loop
AIW_Enter(p, guess_count, llm_word, verdict) ==
    LET guessed == guess_word(llm_word)
        word == play_round_word(guessed)
        q == click_word(p, word, verdict)
        result == read_game_state(q, guess_count - 1)
    IN  /\ page' = q
        /\ stack' = Append(stack, Frame(word, result))
        /\ rejected' = Count(TypeLetters(p, word), verdict)

\* run: the loop condition holds: guess_count += 1, play_round is called
AIW_RunCall ==
    /\ agent = "AIW" /\ outcome = "running" /\ stack = <<>>
    /\ ~game_won /\ current_round < max_guesses
    /\ current_round' = current_round + 1
    /\ \E llm_word \in CallLLMForGuessResults, verdict \in VerdictsLeft :
            AIW_Enter(page, current_round', llm_word, verdict)
    /\ UNCHANGED <<fnvars, llm_calls, histvars, agent, guess_history, game_won, game_status, iteration, outcome, reason>>

\* play_round, loop body: clear_word, then the nested play_round call
AIW_Retry ==
    /\ agent = "AIW" /\ outcome = "running" /\ stack # <<>>
    /\ HasUnknown(Last(stack).result)
    /\ IF Len(stack) >= MaxDepth
       THEN /\ outcome' = "RecursionError"
            /\ page' = clear_word(page)
            /\ UNCHANGED <<stack, rejected>>
       ELSE /\ \E llm_word \in CallLLMForGuessResults, verdict \in VerdictsLeft :
                    AIW_Enter(clear_word(page), current_round, llm_word, verdict)
            /\ UNCHANGED outcome
    /\ UNCHANGED <<fnvars, llm_calls, histvars, agent, guess_history, current_round, game_won, game_status,
                   iteration, reason>>

\* play_round, after the loop: the record is appended and is_game_won
\* returned; the caller re-reads its row (line 349) or, in run, assigns
\* game_won
AIW_Return ==
    /\ agent = "AIW" /\ outcome = "running" /\ stack # <<>>
    /\ ~HasUnknown(Last(stack).result)
    /\ guess_history' = Append(guess_history, <<Last(stack).word, Last(stack).result>>)
    /\ IF Len(stack) = 1
       THEN /\ stack' = <<>>
            /\ game_won' = check_game_won(Last(stack).result)
       ELSE /\ stack' = Resume(Front(stack), read_game_state(page, current_round - 1))
            /\ UNCHANGED game_won
    /\ UNCHANGED <<fnvars, llm_calls, histvars, agent, page, current_round, game_status, iteration, outcome,
                   reason, rejected>>

\* run: the loop condition fails, the summary is logged
AIW_RunExit ==
    /\ agent = "AIW" /\ outcome = "running" /\ stack = <<>>
    /\ ~(~game_won /\ current_round < max_guesses)
    /\ outcome' = IF game_won THEN "won" ELSE "lost"
    /\ UNCHANGED <<fnvars, llm_calls, histvars, agent, page, guess_history, current_round, game_won,
                   game_status, stack, iteration, reason, rejected>>

AIW_Next == AIW_RunCall \/ AIW_Retry \/ AIW_Return \/ AIW_RunExit

(***************************************************************************)
(* WordleWorkflow of src/wordle_workflow.py                                *)
(* guess_history is self.game_state; stack is non-empty while play_round   *)
(* is inside its while True loop                                           *)
(***************************************************************************)
\* end_game
end_game(status) ==
    IF status = "win" THEN game_status' = "win"
    ELSE IF status = "loss" THEN game_status' = "loss"
    ELSE UNCHANGED game_status

\* a faulty variant of the decision: the full board is looked at first
WW_Finish_LossFirst(last_result, game_state) ==
    IF Len(game_state) = 6 THEN end_game("loss")
    ELSE IF last_result = ccccc THEN end_game("win")
    ELSE UNCHANGED game_status

\* play_round after the loop: the win / loss decision
WW_Finish(last_result, game_state) ==
    IF last_result = ccccc THEN end_game("win")
    ELSE IF Len(game_state) = 6 THEN end_game("loss")
    ELSE UNCHANGED game_status

\* one iteration of the loop of play_round (entered from run when
\* len(game_state) < 6, or repeated after a rejection), with the tail of
\* play_round when the loop breaks
WW_Attempt ==
    /\ agent = "WW" /\ outcome = "running"
    /\ stack # <<>> \/ (Len(guess_history) < 6 /\ game_status = None)
    /\ \E llm_response \in LLMResponses, verdict \in Verdicts :
        \* q and board are bound as values: each is computed once
        \E word \in {parse_llm_response(llm_response)} :
        \E q \in {click_word(page, word, verdict)} :
        \E board \in {read_game_board(q)} :
            IF board = <<>>
            THEN \* self.game_state[-1] raises IndexError
                 /\ page' = q
                 /\ guess_history' = board
                 /\ outcome' = "IndexError"
                 /\ UNCHANGED <<stack, game_status, rejected>>
            ELSE IF HasUnknown(Last(board)[2])
            THEN /\ page' = clear_word(q)
                 /\ guess_history' = Front(board)
                 /\ stack' = <<Frame(word, Last(board)[2])>>
                 /\ rejected' = Count(TypeLetters(page, word), verdict)
                 /\ UNCHANGED <<outcome, game_status>>
            ELSE /\ page' = q
                 /\ guess_history' = board
                 /\ stack' = <<>>
                 /\ WW_Finish(Last(board)[2], board)
                 /\ UNCHANGED <<outcome, rejected>>
    /\ UNCHANGED <<fnvars, llm_calls, histvars, agent, current_round, game_won, iteration, reason>>

\* run: the loop is left (game_status is set or game_state holds 6 records)
\* and the status is logged
WW_RunExit ==
    /\ agent = "WW" /\ outcome = "running" /\ stack = <<>>
    /\ ~(Len(guess_history) < 6 /\ game_status = None)
    /\ outcome' = "ended"
    /\ UNCHANGED <<fnvars, llm_calls, histvars, agent, page, guess_history, current_round, game_won,
                   game_status, stack, iteration, reason, rejected>>

WW_Next == WW_Attempt \/ WW_RunExit

(***************************************************************************)
(* The structured-action agents: what the LLM answers                      *)
(***************************************************************************)
\* the args dict of an action: the keys present and their values
Args(keys, word, guess, result, row_index, status) ==
    [keys |-> keys, word |-> word, guess |-> guess, result |-> result,
     row_index |-> row_index, status |-> status]

NoArgs == Args({}, <<>>, <<>>, <<>>, 0, "")
WordArg(word) == Args({"word"}, word, <<>>, <<>>, 0, "")
GuessArg(guess) == Args({"guess"}, <<>>, guess, <<>>, 0, "")
GuessResultArgs(guess, result) == Args({"guess", "result"}, <<>>, guess, result, 0, "")
ResultArg(result) == Args({"result"}, <<>>, <<>>, result, 0, "")
RowIndexArg(row_index) == Args({"row_index"}, <<>>, <<>>, <<>>, row_index, "")
StatusArg(status) == Args({"status"}, <<>>, <<>>, <<>>, 0, status)

\* kind "none": call_llm returns None (the call raised, empty content,
\* unparseable content); kind "malformed": parse_action raises ValueError;
\* kind "action": parse_action returns (tool, args); kind "malformed_args"
\* (src/main.py only): the string has the shape tool(...) but the text in
\* the parentheses is not a list of key="value" / key=123 items, and
\* parse_action returns (tool, the args it could find)
Response(kind, tool, args) == [kind |-> kind, tool |-> tool, args |-> args]

cpaaa == <<"c", "p", "a", "a", "a">>

\* the word "Error", as an LLM may write it
Word_Error == <<"E", "r", "r", "o", "r">>

L1Responses ==
    { Response("none", "", NoArgs),
      Response("malformed", "", NoArgs),
      Response("action", "click_word", WordArg(crane)),
      Response("action", "click_word", NoArgs),
      Response("action", "clear_word", NoArgs),
      Response("action", "update_game_state", GuessArg(crane)),
      Response("action", "end_game", NoArgs) }

L1MainResponses ==
    { Response("none", "", NoArgs),
      Response("malformed", "", NoArgs),
      Response("action", "click_word", WordArg(crane)),
      Response("malformed_args", "click_word", NoArgs),
      Response("action", "clear_word", NoArgs),
      Response("malformed_args", "clear_word", NoArgs),
      Response("action", "read_game_state", RowIndexArg(0)),
      Response("action", "read_game_state", NoArgs),
      Response("action", "update_game_state", GuessResultArgs(crane, ccccc)),
      Response("action", "update_game_state", GuessResultArgs(crane, cpaaa)),
      Response("action", "update_game_state", GuessResultArgs(crane, uuuuu)),
      Response("action", "check_game_won", ResultArg(ccccc)),
      Response("action", "check_game_won", ResultArg(cpaaa)),
      Response("action", "end_game", NoArgs) }

L2Responses ==
    { Response("none", "", NoArgs),
      Response("malformed", "", NoArgs),
      Response("action", "click_word", WordArg(crane)),
      Response("action", "click_word", NoArgs),
      Response("action", "clear_word", NoArgs),
      Response("action", "read_game_board", NoArgs),
      Response("action", "end_game", StatusArg("win")),
      Response("action", "end_game", StatusArg("loss")),
      Response("action", "end_game", StatusArg("draw")),
      Response("action", "end_game", NoArgs),
      Response("action", "update_game_state", GuessArg(crane)),
      Response("action", "click_word", WordArg(Word_Error)),
      Response("action", "end_game", StatusArg("Error")) }

UnknownRecords == Cardinality({i \in 1..Len(guess_history) : Contains(guess_history[i][2], "u")})

\* the result strings of the rows of a board
Results(board) == [i \in 1..Len(board) |-> board[i][2]]

\* board_reads after a board reader returned the given result strings
Returned(reads, results) ==
    [results |-> reads.results \cup {results[i] : i \in 1..Len(results)},
     rows_no_win |-> IF (\A i \in 1..Len(results) : results[i] # ccccc)
                        /\ Len(results) > reads.rows_no_win
                     THEN Len(results) ELSE reads.rows_no_win]

\* why execute_tool returned an error string: the else branch raised
\* ValueError("Unknown tool: ..."), or args[...] raised KeyError
ToolErrors == {"unknown_tool", "missing_argument"}

(***************************************************************************)
(* Level1WordleAgent of src/level_1_wordle_agent.py                        *)
(***************************************************************************)
max_iterations == 50

\* the names execute_tool knows
L1_Tools == {"click_word", "clear_word", "update_game_state"}

\* update_game_state(page, game_state, guess) of level_1_wordle_agent.py:
\* current_round is 1-indexed; the record is appended whatever the result
L1_update_game_state(p, guess) ==
    LET result == read_game_state(p, current_round - 1)
    IN  /\ guess_history' = Append(guess_history, <<guess, result>>)
        /\ current_round' = IF ~Contains(result, "u") THEN current_round + 1
                            ELSE current_round

\* a faulty variant: the error string is returned and run goes on
L1_ToolError_NoBreak(why) ==
    /\ reason' = "none"
    /\ UNCHANGED <<page, guess_history, current_round, rejected>>

\* execute_tool raised inside its try: "Error executing tool ..." is
\* returned, and run breaks on "Error" in result
L1_ToolError(why) ==
    /\ reason' = why
    /\ UNCHANGED <<page, guess_history, current_round, rejected>>

\* execute_tool, and run's test of the returned string
L1_execute_tool(tool_name, args, verdict) ==
    IF tool_name = "click_word"
    THEN IF "word" \in args.keys
         THEN /\ page' = click_word(page, lower(args.word), verdict)
              /\ reason' = "none"
              /\ UNCHANGED <<guess_history, current_round, rejected>>
         ELSE L1_ToolError("missing_argument")
    ELSE IF tool_name = "clear_word"
    THEN /\ page' = clear_word(page)
         /\ reason' = "none"
         /\ UNCHANGED <<guess_history, current_round, rejected>>
    ELSE IF tool_name = "update_game_state"
    THEN IF "guess" \in args.keys
         THEN /\ L1_update_game_state(page, args.guess)
              /\ reason' = "none"
              /\ UNCHANGED <<page, rejected>>
         ELSE L1_ToolError("missing_argument")
    ELSE L1_ToolError("unknown_tool")

\* a faulty variant: the ceiling is one too high
L1_IterationExceeded_OffByOne(it) == it > max_iterations + 1

\* iteration > max_iterations
L1_IterationExceeded(it) == it > max_iterations

\* run, from call_llm to the end of the loop body
L1_Respond(response, verdict) ==
    /\ llm_calls' = llm_calls + 1
    /\ IF response.kind = "none"
       THEN /\ reason' = "llm_failed"
            /\ UNCHANGED <<page, guess_history, current_round, outcome, rejected>>
       ELSE IF response.kind = "malformed"
       THEN /\ outcome' = "ValueError"
            /\ UNCHANGED <<page, guess_history, current_round, reason, rejected>>
       ELSE /\ L1_execute_tool(response.tool, response.args, verdict)
            /\ UNCHANGED outcome

\* run of src/level_1_wordle_agent.py: the N of "Game won in N guesses!"
won_in_guesses == current_round

\* run: one iteration of the loop
L1_Step ==
    /\ agent = "L1" /\ outcome = "running" /\ reason = "none"
    /\ current_round <= max_guesses
    /\ iteration' = iteration + 1
    /\ LET won == guess_history # <<>> /\ Last(guess_history)[2] = ccccc
           lost == current_round > max_guesses /\ ~won
       IN  IF L1_IterationExceeded(iteration')
           THEN /\ reason' = "max_iterations"
                /\ UNCHANGED <<page, guess_history, current_round, outcome, rejected,
                               llm_calls>>
           ELSE IF won
           THEN /\ reason' = "game_won" /\ outcome' = "won"
                /\ UNCHANGED <<page, guess_history, current_round, rejected, llm_calls>>
           ELSE IF lost
           THEN /\ reason' = "game_lost" /\ outcome' = "lost"
                /\ UNCHANGED <<page, guess_history, current_round, rejected, llm_calls>>
           ELSE \E response \in L1Responses, verdict \in Verdicts :
                    /\ response.tool = "update_game_state"
                            /\ Contains(read_game_state(page, current_round - 1), "u")
                        => UnknownRecords < MaxUnknownRecords
                    /\ L1_Respond(response, verdict)
    /\ UNCHANGED <<fnvars, histvars, agent, game_won, game_status, stack>>

\* run: the loop is over (its condition failed or a break was taken) and
\* run returns; level_1_wordle_agent.py logs nothing after the loop
L1_RunExit ==
    /\ agent = "L1" /\ outcome = "running"
    /\ reason # "none" \/ ~(current_round <= max_guesses)
    /\ outcome' = "none"
    /\ reason' = IF reason = "none" THEN "condition" ELSE reason
    /\ UNCHANGED <<fnvars, llm_calls, histvars, agent, page, guess_history, current_round, game_won,
                   game_status, stack, iteration, rejected>>

\* the step of run in which call_llm answers with the given response
L1_StepWith(response, verdict) ==
    /\ agent = "L1" /\ outcome = "running" /\ reason = "none"
    /\ current_round <= max_guesses
    /\ iteration' = iteration + 1
    /\ ~L1_IterationExceeded(iteration')
    /\ ~(guess_history # <<>> /\ Last(guess_history)[2] = ccccc)
    /\ L1_Respond(response, verdict)

L1_Next == L1_Step \/ L1_RunExit

(***************************************************************************)
(* Level1WordleAgent of src/main.py                                        *)
(***************************************************************************)
main_max_iterations == 30

\* the names execute_tool knows
L1Main_Tools ==
    {"click_word", "clear_word", "read_game_state", "update_game_state", "check_game_won"}

\* execute_tool raised inside its try: "Error executing tool ..." is
\* returned, and run breaks on "Error" in result
L1Main_ToolError(why) ==
    /\ reason' = why
    /\ UNCHANGED <<page, guess_history, current_round, game_won, rejected, board_reads>>

\* execute_tool of src/main.py, and run's tests of the returned string
L1Main_execute_tool(tool_name, args, verdict) ==
    IF tool_name = "click_word"
    THEN IF "word" \in args.keys
         THEN /\ page' = click_word(page, lower(args.word), verdict)
              /\ reason' = "none"
              /\ UNCHANGED <<guess_history, current_round, game_won, rejected, board_reads>>
         ELSE L1Main_ToolError("missing_argument")
    ELSE IF tool_name = "clear_word"
    THEN /\ page' = clear_word(page)
         /\ reason' = "none"
         /\ UNCHANGED <<guess_history, current_round, game_won, rejected, board_reads>>
    ELSE IF tool_name = "read_game_state"
    THEN IF "row_index" \in args.keys
         THEN \* the result string is returned to run, which only prints it
              /\ board_reads' = Returned(board_reads, <<read_game_state(page, args.row_index)>>)
              /\ reason' = "none"
              /\ UNCHANGED <<page, guess_history, current_round, game_won, rejected>>
         ELSE L1Main_ToolError("missing_argument")
    ELSE IF tool_name = "update_game_state"
    THEN IF {"guess", "result"} \subseteq args.keys
         THEN /\ update_game_state(args.guess, args.result)
              /\ reason' = "none"
              /\ UNCHANGED <<page, rejected, board_reads>>
         ELSE L1Main_ToolError("missing_argument")
    ELSE IF tool_name = "check_game_won"
    THEN IF "result" \in args.keys
         THEN /\ reason' = IF check_game_won(args.result) THEN "game_won_tool" ELSE "none"
              /\ UNCHANGED <<page, guess_history, current_round, game_won, rejected,
                             board_reads>>
         ELSE L1Main_ToolError("missing_argument")
    ELSE L1Main_ToolError("unknown_tool")

\* iteration > max_iterations
L1Main_IterationExceeded(it) == it > main_max_iterations

\* run, from call_llm to the end of the loop body
L1Main_Respond(response, verdict) ==
    /\ llm_calls' = llm_calls + 1
    /\ IF response.kind = "none"
       THEN /\ reason' = "llm_failed"
            /\ UNCHANGED <<page, guess_history, current_round, game_won, outcome,
                           rejected, board_reads>>
       ELSE IF response.kind = "malformed"
       THEN /\ outcome' = "ValueError"
            /\ UNCHANGED <<page, guess_history, current_round, game_won, reason,
                           rejected, board_reads>>
       ELSE /\ L1Main_execute_tool(response.tool, response.args, verdict)
            /\ UNCHANGED outcome

\* run: one iteration of the loop
L1Main_Step ==
    /\ agent = "L1Main" /\ outcome = "running" /\ reason = "none"
    /\ main_LoopCondition
    /\ iteration' = iteration + 1
    /\ IF L1Main_IterationExceeded(iteration')
       THEN /\ reason' = "max_iterations"
            /\ UNCHANGED <<page, guess_history, current_round, game_won, outcome,
                           rejected, llm_calls, board_reads>>
       ELSE \E response \in L1MainResponses, verdict \in Verdicts :
                /\ response.tool = "update_game_state" /\ Contains(response.args.result, "u")
                        => UnknownRecords < MaxUnknownRecords
                /\ L1Main_Respond(response, verdict)
    /\ UNCHANGED <<fnvars, action_history, agent, game_status, stack>>

\* run: the loop is over (its condition failed or a break was taken); the
\* summary is logged
L1Main_RunExit ==
    /\ agent = "L1Main" /\ outcome = "running"
    /\ reason # "none" \/ ~main_LoopCondition
    /\ outcome' = IF game_won THEN "won" ELSE "lost"
    /\ reason' = IF reason = "none" THEN "condition" ELSE reason
    /\ UNCHANGED <<fnvars, llm_calls, histvars, agent, page, guess_history, current_round, game_won,
                   game_status, stack, iteration, rejected>>

\* the step of run in which call_llm answers with the given response
L1Main_StepWith(response, verdict) ==
    /\ agent = "L1Main" /\ outcome = "running" /\ reason = "none"
    /\ main_LoopCondition
    /\ iteration' = iteration + 1
    /\ ~L1Main_IterationExceeded(iteration')
    /\ L1Main_Respond(response, verdict)

L1Main_Next == L1Main_Step \/ L1Main_RunExit

(***************************************************************************)
(* Level2WordleAgent of src/level_2_wordle_agent.py                        *)
(* game_status is self.game_status                                         *)
(***************************************************************************)
L2_max_iterations == 50

\* the names execute_tool knows
L2_Tools == {"click_word", "clear_word", "read_game_board", "end_game"}

\* end_game: any status other than 'win' and 'loss' is logged and dropped
L2_end_game(status) ==
    game_status' = IF status = "win" THEN "win"
                   ELSE IF status = "loss" THEN "loss"
                   ELSE game_status

\* execute_tool raised inside its try: "Error executing tool ..." is
\* returned, and run breaks on "Error" in result
L2_ToolError(why) ==
    /\ reason' = why
    /\ UNCHANGED <<page, game_status, board_reads>>

\* pattern in text
In(pattern, text) ==
    \E i \in 1..(Len(text) - Len(pattern) + 1) :
        SubSeq(text, i, i + Len(pattern) - 1) = pattern

\* the strings execute_tool returns for click_word and end_game, up to the
\* argument they echo
Msg_WordClicked == <<"W", "o", "r", "d", " ", "c", "l", "i", "c", "k", "e", "d", "!", " ", "Y", "o", "u", "r", " ", "m", "o", "s", "t", " ", "r", "e", "c", "e", "n", "t", " ", "g", "u", "e", "s", "s", " ", "i", "s", " ">>
Msg_GameEnded == <<"G", "a", "m", "e", " ", "e", "n", "d", "e", "d", " ", "w", "i", "t", "h", " ", "s", "t", "a", "t", "u", "s", ":", " ">>
\* the status argument as text
StatusText(status) ==
    CASE status = "win" -> <<"w", "i", "n">>
      [] status = "loss" -> <<"l", "o", "s", "s">>
      [] status = "draw" -> <<"d", "r", "a", "w">>
      [] status = "Error" -> Word_Error

\* run: if "Error" in result
ErrorInResult(result) == In(Word_Error, result)

\* execute_tool, and run's tests after it: "Error" in result, then
\* game_status is not None; the strings of clear_word and read_game_board
\* (lower-case words and results) hold no "Error"
L2_execute_tool(tool_name, args, verdict) ==
    IF tool_name = "click_word"
    THEN IF "word" \in args.keys
         THEN /\ page' = click_word(page, lower(args.word), verdict)
              /\ reason' = IF ErrorInResult(Msg_WordClicked \o args.word)
                            THEN "error_in_result" ELSE "none"
              /\ UNCHANGED <<game_status, board_reads>>
         ELSE L2_ToolError("missing_argument")
    ELSE IF tool_name = "clear_word"
    THEN /\ page' = clear_word(page)
         /\ reason' = "none"
         /\ UNCHANGED <<game_status, board_reads>>
    ELSE IF tool_name = "read_game_board"
    THEN \* the board goes into the returned string only
         /\ board_reads' = Returned(board_reads, Results(read_game_board(page)))
         /\ reason' = "none"
         /\ UNCHANGED <<page, game_status>>
    ELSE IF tool_name = "end_game"
    THEN IF "status" \in args.keys
         THEN /\ L2_end_game(args.status)
              /\ reason' = IF ErrorInResult(Msg_GameEnded \o StatusText(args.status))
                            THEN "error_in_result"
                            ELSE IF game_status' # None THEN "game_status" ELSE "none"
              /\ UNCHANGED <<page, board_reads>>
         ELSE L2_ToolError("missing_argument")
    ELSE L2_ToolError("unknown_tool")

\* a faulty variant: the failure is logged and the loop goes on
L2_LLMFailed_Continue ==
    /\ reason' = "none"
    /\ UNCHANGED <<page, game_status, outcome, histvars>>

\* run: if not llm_response: "Failed to get LLM response.", break
L2_LLMFailed ==
    /\ reason' = "llm_failed"
    /\ UNCHANGED <<page, game_status, outcome, histvars>>

\* a faulty variant: a response parse_action cannot read is skipped and
\* the loop goes on, with no entry in action_history for the iteration
L2_Respond_SkipMalformed(response, verdict) ==
    /\ llm_calls' = llm_calls + 1
    /\ IF response.kind = "none"
       THEN L2_LLMFailed
       ELSE IF response.kind = "malformed"
       THEN UNCHANGED <<page, game_status, outcome, reason, histvars>>
       ELSE /\ L2_execute_tool(response.tool, response.args, verdict)
            /\ action_history' = action_history + 1
            /\ UNCHANGED outcome

\* run, from call_llm to the end of the loop body
L2_Respond(response, verdict) ==
    /\ llm_calls' = llm_calls + 1
    /\ IF response.kind = "none"
       THEN L2_LLMFailed
       ELSE IF response.kind = "malformed"
       THEN /\ outcome' = "ValueError"
            /\ UNCHANGED <<page, game_status, reason, histvars>>
       ELSE /\ L2_execute_tool(response.tool, response.args, verdict)
            \* self.action_history.append(((tool_name, args), result))
            /\ action_history' = action_history + 1
            /\ UNCHANGED outcome

\* run: one iteration of the loop; the test iteration > max_iterations
\* inside the loop never holds
L2_Step ==
    /\ agent = "L2" /\ outcome = "running" /\ reason = "none"
    /\ iteration < L2_max_iterations
    /\ iteration' = iteration + 1
    /\ IF iteration' > L2_max_iterations
       THEN /\ reason' = "max_iterations"
            /\ UNCHANGED <<page, game_status, outcome, llm_calls, histvars>>
       ELSE \E response \in L2Responses, verdict \in Verdicts :
                L2_Respond(response, verdict)
    /\ UNCHANGED <<fnvars, agent, guess_history, current_round, game_won, stack, rejected>>

\* run: the loop is over (its condition failed or a break was taken); the
\* status is logged
L2_RunExit ==
    /\ agent = "L2" /\ outcome = "running"
    /\ reason # "none" \/ ~(iteration < L2_max_iterations)
    /\ outcome' = "ended"
    /\ reason' = IF reason = "none" THEN "condition" ELSE reason
    /\ UNCHANGED <<fnvars, llm_calls, histvars, agent, page, guess_history, current_round, game_won,
                   game_status, stack, iteration, rejected>>

\* the step of run in which call_llm answers with the given response
L2_StepWith(response, verdict) ==
    /\ agent = "L2" /\ outcome = "running" /\ reason = "none"
    /\ iteration < L2_max_iterations
    /\ iteration' = iteration + 1
    /\ L2_Respond(response, verdict)

L2_Next == L2_Step \/ L2_RunExit

(***************************************************************************)
(* Specifications                                                          *)
(***************************************************************************)
\* no board reader has returned anything yet
NoReads == [results |-> {}, rows_no_win |-> 0]

\* the values of fnvars while no function is called on its own
NotParsed ==
    [call_llm |-> None, guess_word |-> None, play_round |-> None,
     parse_llm_response |-> None]
NotChecked == [check_game_won |-> FALSE, is_game_won |-> FALSE]
NotRead == [tiles |-> <<>>, row_index |-> 0, result |-> <<>>]
NotClicked == [fn |-> "none", word |-> <<>>, found |-> {}, attempts |-> <<>>, clicks |-> <<>>]
NotParsedAction == [action |-> <<>>, raised |-> FALSE, tool_name |-> <<>>, arg_str |-> <<>>,
                    args |-> <<>>]
CallIdle == tile_read = NotRead /\ clicking = NotClicked /\ action_parse = NotParsedAction
FnIdle ==
    /\ CallIdle
    /\ content = <<>>
    /\ parsed = NotParsed
    /\ result_str = uuuuu
    /\ won_ret = NotChecked

InitOf(a) ==
    /\ FnIdle
    /\ agent = a
    /\ page = EmptyPage
    /\ guess_history = <<>>
    /\ current_round = IF a = "L1" THEN 1 ELSE 0
    /\ game_won = FALSE
    /\ game_status = None
    /\ stack = <<>>
    /\ iteration = 0
    /\ outcome = "running"
    /\ reason = "none"
    /\ rejected = 0
    /\ llm_calls = 0
    /\ board_reads = NoReads
    /\ action_history = 0

\* the word-selection programs
Init == \E a \in {"L0Main", "L0", "AIW", "WW"} : InitOf(a)

InitL0Main == InitOf("L0Main")
InitL0 == InitOf("L0")
InitAIW == InitOf("AIW")
InitWW == InitOf("WW")
SpecL0Main == InitL0Main /\ [][L0Main_Next]_vars
SpecL0 == InitL0 /\ [][L0_Next]_vars
SpecAIW == InitAIW /\ [][AIW_Next]_vars
SpecWW == InitWW /\ [][WW_Next]_vars

InitL1 == InitOf("L1")
InitL1Main == InitOf("L1Main")
SpecL1 == InitL1 /\ [][L1_Next]_vars
SpecL1Main == InitL1Main /\ [][L1Main_Next]_vars
InitL2 == InitOf("L2")
SpecL2 == InitL2 /\ [][L2_Next]_vars

\* the three structured-action agents
StructuredAgents == {"L1", "L1Main", "L2"}
InitStructured == \E a \in StructuredAgents : InitOf(a)
SpecStructured == InitStructured /\ [][L1_Next \/ L1Main_Next \/ L2_Next]_vars

\* the agents of src/level_1_wordle_agent.py and src/level_2_wordle_agent.py
InitLevels == \E a \in {"L1", "L2"} : InitOf(a)
SpecLevels == InitLevels /\ [][L1_Next \/ L2_Next]_vars

\* the two programs that keep a game_status
InitGameStatus == \E a \in {"L2", "WW"} : InitOf(a)
SpecGameStatus == InitGameStatus /\ [][L2_Next \/ WW_Next]_vars

Next == L0Main_Next \/ L0_Next \/ AIW_Next \/ WW_Next

Spec == Init /\ [][Next]_vars

TypeOK ==
    /\ Len(page.rows) <= NumRows
    /\ Len(stack) <= MaxDepth
    /\ rejected \in 0..MaxRejected

\* the three programs whose run stops at a win
InitStopAtWin == \E a \in {"L0Main", "AIW", "WW"} : InitOf(a)
SpecStopAtWin == InitStopAtWin /\ [][L0Main_Next \/ AIW_Next \/ WW_Next]_vars

\* the two agents of src/main.py
InitMain == \E a \in {"L0Main", "L1Main"} : InitOf(a)
SpecMain == InitMain /\ [][L0Main_Next \/ L1Main_Next]_vars

\* WordleWorkflow, whose run always takes its next step
FairSpecWW == SpecWW /\ WF_vars(WW_Next)

(***************************************************************************)
(* check_game_won / is_game_won called on every result string              *)
(***************************************************************************)
\* the 5-character strings over {c, p, a, u}
ResultChars == {"c", "p", "a", "u"}
ResultStrings == [1..5 -> ResultChars]

StateOf(a) ==
    /\ agent = a
    /\ page = EmptyPage
    /\ guess_history = <<>>
    /\ current_round = 0
    /\ game_won = FALSE
    /\ game_status = None
    /\ stack = <<>>
    /\ iteration = 0
    /\ outcome = "running"
    /\ reason = "none"
    /\ rejected = 0
    /\ llm_calls = 0
    /\ board_reads = NoReads
    /\ action_history = 0

InitCheckWon ==
    /\ StateOf("check_game_won")
    /\ CallIdle
    /\ content = <<>> /\ parsed = NotParsed
    /\ result_str \in ResultStrings
    /\ won_ret = NotChecked

\* the call returns
CheckWon ==
    /\ agent = "check_game_won" /\ outcome = "running"
    /\ won_ret' = [check_game_won |-> check_game_won(result_str),
                    is_game_won |-> is_game_won(result_str)]
    /\ outcome' = "returned"
    /\ UNCHANGED <<agent, page, guess_history, current_round, game_won,
                   game_status, stack, iteration, reason, rejected,
                   content, parsed, result_str, llm_calls, histvars, callvars>>

SpecCheckWon == InitCheckWon /\ [][CheckWon]_vars

(***************************************************************************)
(* The word parsers on their own: every text of Texts, or no text at all,  *)
(* is handed to call_llm, guess_word, play_round's word selection and      *)
(* WordleWorkflow.parse_llm_response                                       *)
(***************************************************************************)
InitParse ==
    /\ StateOf("guess_word")
    /\ CallIdle
    /\ content = NoContent \/ content \in Texts
    /\ parsed = NotParsed /\ result_str = uuuuu /\ won_ret = NotChecked

Parse ==
    /\ agent = "guess_word" /\ outcome = "running"
    /\ parsed' = [call_llm |-> call_llm(content),
                  guess_word |-> guess_word(call_llm(content)),
                  play_round |-> play_round_word(guess_word(call_llm(content))),
                  parse_llm_response |-> parse_llm_response(content)]
    /\ outcome' = "returned"
    /\ UNCHANGED <<agent, page, guess_history, current_round, game_won, game_status, stack,
                   iteration, reason, rejected, content, result_str, won_ret, llm_calls,
                   histvars, callvars>>

SpecParse == InitParse /\ [][Parse]_vars

(***************************************************************************)
(* The row reader on its own: read_game_state / read_guess_result is       *)
(* called with every row_index of 0..MaxRowIndex on a page on which the    *)
(* locator finds 0..MaxTiles tiles, whole rows and a last row cut short    *)
(***************************************************************************)
\* the data-state attributes of the 5 tiles of a row ("" for a tile that has none)
RowStates ==
    { <<"correct", "correct", "correct", "correct", "correct">>,
      <<"correct", "present", "absent", "absent", "absent">>,
      <<"tbd", "tbd", "tbd", "tbd", "tbd">>,
      <<"empty", "empty", "empty", "empty", "empty">>,
      <<"absent", "", "present", "tbd", "correct">> }

\* the rows needed for MaxTiles tiles
TileRows == (MaxTiles + 4) \div 5

RECURSIVE Flatten(_)
Flatten(rows) == IF rows = <<>> THEN <<>> ELSE rows[1] \o Flatten(Tail(rows))

InitReadRow ==
    /\ StateOf("read_game_state")
    /\ content = <<>> /\ parsed = NotParsed /\ result_str = uuuuu /\ won_ret = NotChecked
    /\ clicking = NotClicked /\ action_parse = NotParsedAction
    /\ \E rows \in [1..TileRows -> RowStates], n \in 0..MaxTiles, row_index \in 0..MaxRowIndex :
            tile_read = [tiles |-> SubSeq(Flatten(rows), 1, n), row_index |-> row_index,
                         result |-> <<>>]

\* the call returns
ReadRow ==
    /\ agent = "read_game_state" /\ outcome = "running"
    /\ tile_read' = [tile_read EXCEPT
                        !.result = read_guess_result(tile_read.tiles, tile_read.row_index)]
    /\ outcome' = "returned"
    /\ UNCHANGED <<agent, page, guess_history, current_round, game_won, game_status, stack,
                   iteration, reason, rejected, content, parsed, result_str, won_ret,
                   llm_calls, histvars, clicking, action_parse>>

SpecReadRow == InitReadRow /\ [][ReadRow]_vars

(***************************************************************************)
(* The keyboard functions on their own: click_word and clear_word are      *)
(* called on a page that lacks some of the selectors; a trace records      *)
(* every wait_and_click call and every click the page receives             *)
(***************************************************************************)
\* button[data-key="↵"] and button[data-key="←"]; the selector of a letter
\* key is written as the letter
EnterKey == "Enter"
BackspaceKey == "Backspace"
Selectors == Keys \cup {EnterKey, BackspaceKey}

NoTrace == [attempts |-> <<>>, clicks |-> <<>>]

\* wait_and_click that clicks without waiting for the selector
wait_and_click_Blind(trace, found, selector) ==
    [attempts |-> Append(trace.attempts, selector),
     clicks |-> Append(trace.clicks, selector)]

\* wait_and_click: the element is clicked if wait_for_selector_safe found
\* it; otherwise False is returned and nothing is clicked
wait_and_click(trace, found, selector) ==
    [attempts |-> Append(trace.attempts, selector),
     clicks |-> IF selector \in found THEN Append(trace.clicks, selector) ELSE trace.clicks]

\* click_word: for letter in word.lower()
RECURSIVE click_letters(_, _, _)
click_letters(trace, found, letters) ==
    IF letters = <<>> THEN trace
    ELSE click_letters(wait_and_click(trace, found, Head(letters)), found, Tail(letters))

\* click_word as the wait_and_click calls it makes
click_word_trace(found, word) ==
    wait_and_click(click_letters(NoTrace, found, lower(word)), found, EnterKey)

\* clear_word: for i in range(5)
RECURSIVE clear_word_trace(_, _, _)
clear_word_trace(trace, found, i) ==
    IF i = 5 THEN trace
    ELSE clear_word_trace(wait_and_click(trace, found, BackspaceKey), found, i + 1)

Crane == <<"C", "r", "a", "n", "e">>
ClickWords == {crane, Crane, slope, quiet, naive, cran}
\* the selectors a page may lack
MissingSelectors == {"c", "e", "i-diaeresis", EnterKey, BackspaceKey}

InitClicks ==
    /\ StateOf("click_word") \/ StateOf("clear_word")
    /\ content = <<>> /\ parsed = NotParsed /\ result_str = uuuuu /\ won_ret = NotChecked
    /\ tile_read = NotRead /\ action_parse = NotParsedAction
    /\ \E word \in ClickWords, missing \in SUBSET MissingSelectors :
            clicking = [fn |-> agent,
                        word |-> IF agent = "click_word" THEN word ELSE <<>>,
                        found |-> Selectors \ missing,
                        attempts |-> <<>>, clicks |-> <<>>]

\* the call returns
Clicks ==
    /\ agent \in {"click_word", "clear_word"} /\ outcome = "running"
    /\ \E trace \in {IF agent = "click_word"
                      THEN click_word_trace(clicking.found, clicking.word)
                      ELSE clear_word_trace(NoTrace, clicking.found, 0)} :
            clicking' = [clicking EXCEPT !.attempts = trace.attempts, !.clicks = trace.clicks]
    /\ outcome' = "returned"
    /\ UNCHANGED <<agent, page, guess_history, current_round, game_won, game_status, stack,
                   iteration, reason, rejected, content, parsed, result_str, won_ret,
                   llm_calls, histvars, tile_read, action_parse>>

SpecClicks == InitClicks /\ [][Clicks]_vars

(***************************************************************************)
(* parse_action of src/main.py on its own: action strings of the shape     *)
(* tool(...), with and without blanks around them, and strings without the *)
(* parentheses; the argument list holds up to two items, some of them not  *)
(* of the form key="value" / key=123                                       *)
(***************************************************************************)
Quote == "\""
DigitChars == <<"0", "1", "2", "3", "4", "5", "6", "7", "8", "9">>
Digits == {DigitChars[i] : i \in 1..10}

\* int(value) for a value that str.isdigit() accepts
RECURSIVE int(_)
int(value) ==
    IF value = <<>> THEN 0
    ELSE int(Front(value)) * 10 + ((CHOOSE i \in 1..10 : DigitChars[i] = Last(value)) - 1)

\* the first position from i on whose character is outside set (Len(s) + 1
\* if there is none): where a greedy \w+, \s*, \d+ or [^"]* stops
RECURSIVE SkipWhile(_, _, _)
SkipWhile(s, i, set) ==
    IF i <= Len(s) /\ s[i] \in set THEN SkipWhile(s, i + 1, set) ELSE i

NoMatch == [ok |-> FALSE, start |-> 0, end |-> 0, key |-> <<>>, value |-> <<>>]

\* arg_pattern, (\w+)\s*=\s*("[^"]*"|\d+), matched at position i of s; the
\* value is converted as the loop body does: quotes removed, digits to int
MatchArg(s, i) ==
    LET k == SkipWhile(s, i, WordChars)
        e == SkipWhile(s, k, Whitespace)
        v == SkipWhile(s, e + 1, Whitespace)
        q == SkipWhile(s, v + 1, {s[j] : j \in 1..Len(s)} \ {Quote})
        d == SkipWhile(s, v, Digits)
    IN  IF k = i \/ e > Len(s) \/ s[e] # "=" \/ v > Len(s) THEN NoMatch
        ELSE IF s[v] = Quote
        THEN IF q > Len(s) THEN NoMatch
             ELSE [ok |-> TRUE, start |-> i, end |-> q, key |-> SubSeq(s, i, k - 1),
                   value |-> SubSeq(s, v + 1, q - 1)]
        ELSE IF d > v
        THEN [ok |-> TRUE, start |-> i, end |-> d - 1, key |-> SubSeq(s, i, k - 1),
              value |-> int(SubSeq(s, v, d - 1))]
        ELSE NoMatch

\* arg_pattern.findall(arg_str): the matches from position i on, left to
\* right and not overlapping
RECURSIVE findall(_, _)
findall(s, i) ==
    IF i > Len(s) THEN <<>>
    ELSE LET m == MatchArg(s, i)
         IN  IF m.ok THEN <<m>> \o findall(s, m.end + 1) ELSE findall(s, i + 1)

\* args[key] = value for each match in turn: a later match of a key replaces
\* an earlier one
ArgsOf(matches) ==
    [key \in {matches[j].key : j \in 1..Len(matches)} |->
        matches[CHOOSE j \in 1..Len(matches) :
                    /\ matches[j].key = key
                    /\ \A h \in (j + 1)..Len(matches) : matches[h].key # key].value]

\* parse_action: ValueError unless the stripped string matches
\* ^(\w+)\((.*)\)$; otherwise the tool name and the dict of the matches
parse_action(action) ==
    LET s == strip(action)
        k == SkipWhile(s, 1, WordChars)
        arg_str == SubSeq(s, k + 1, Len(s) - 1)
    IN  IF k > 1 /\ k < Len(s) /\ s[k] = "(" /\ s[Len(s)] = ")"
        THEN [action |-> action, raised |-> FALSE, tool_name |-> SubSeq(s, 1, k - 1),
              arg_str |-> arg_str, args |-> ArgsOf(findall(arg_str, 1))]
        ELSE [action |-> action, raised |-> TRUE, tool_name |-> <<>>, arg_str |-> <<>>,
              args |-> <<>>]

\* the tool names, as text
Text_click_word == <<"c", "l", "i", "c", "k", "_", "w", "o", "r", "d">>
Text_read_game_state == <<"r", "e", "a", "d", "_", "g", "a", "m", "e", "_", "s", "t", "a", "t", "e">>
Text_clear_word == <<"c", "l", "e", "a", "r", "_", "w", "o", "r", "d">>
ToolTexts == {Text_click_word, Text_read_game_state, Text_clear_word}

\* items of an argument list: word="crane", row_index=0, word = "crane",
\* and outside the grammar word='crane', row_index=-1, row_index=1.5, !!
Arg_Word == <<"w", "o", "r", "d", "=", "\"", "c", "r", "a", "n", "e", "\"">>
Arg_RowIndex == <<"r", "o", "w", "_", "i", "n", "d", "e", "x", "=", "0">>
Arg_WordSpaced == <<"w", "o", "r", "d", " ", "=", " ", "\"", "c", "r", "a", "n", "e", "\"">>
Arg_SingleQuoted == <<"w", "o", "r", "d", "=", "'", "c", "r", "a", "n", "e", "'">>
Arg_Negative == <<"r", "o", "w", "_", "i", "n", "d", "e", "x", "=", "-", "1">>
Arg_Float == <<"r", "o", "w", "_", "i", "n", "d", "e", "x", "=", "1", ".", "5">>
Arg_Bangs == <<"!", "!">>
ArgItems == {Arg_Word, Arg_RowIndex, Arg_WordSpaced, Arg_SingleQuoted, Arg_Negative,
             Arg_Float, Arg_Bangs}
\* no item, one item, two items
ArgLists == {<<>>} \cup ArgItems \cup {a \o <<",", " ">> \o b : a \in ArgItems, b \in ArgItems}

ActionStrings ==
    UNION {{t \o <<"(">> \o a \o <<")">>,
            <<" ">> \o t \o <<"(">> \o a \o <<")", " ">>,
            t \o <<" ">> \o a} : t \in ToolTexts, a \in ArgLists}

InitParseAction ==
    /\ StateOf("parse_action")
    /\ content = <<>> /\ parsed = NotParsed /\ result_str = uuuuu /\ won_ret = NotChecked
    /\ tile_read = NotRead /\ clicking = NotClicked
    /\ \E action \in ActionStrings :
            action_parse = [NotParsedAction EXCEPT !.action = action]

\* the call returns, or raises ValueError
ParseAction ==
    /\ agent = "parse_action" /\ outcome = "running"
    /\ action_parse' = parse_action(action_parse.action)
    /\ outcome' = IF action_parse'.raised THEN "ValueError" ELSE "returned"
    /\ UNCHANGED <<agent, page, guess_history, current_round, game_won, game_status, stack,
                   iteration, reason, rejected, content, parsed, result_str, won_ret,
                   llm_calls, histvars, tile_read, clicking>>

SpecParseAction == InitParseAction /\ [][ParseAction]_vars

(***************************************************************************)
(* Claims                                                                  *)
(***************************************************************************)
\* an accepted result equal to 'ccccc' has been read or recorded
WinSeen ==
    \/ \E i \in 1..Len(guess_history) : guess_history[i][2] = ccccc
    \/ stack # <<>> /\ Last(stack).result = ccccc

\* C1: in Level0WordleAgent.play_round, when the submission for a round is
\* rejected and the nested retry for that round is accepted, the retry loop
\* of the outer call exits: the result the outer call reads when the nested
\* call has returned holds no 'u', so the round is recorded once and
\* current_round advances by exactly 1.
C1_RetryLoopExits ==
    agent \in {"L0Main", "L0"} =>
        \A i \in 1..Len(stack) :
            stack[i].pc = "reread" =>
                /\ ~HasUnknown(stack[i].result)
                /\ Len(guess_history) = current_round

\* C2: in play_round of wordle-ai-workflow/main.py a round with a rejected
\* submission and an accepted retry adds exactly one record, the accepted
\* one: back in run, guess_history holds one record per round played and
\* each record carries the word of its board row.
C2_OneRecordPerRound ==
    (agent = "AIW" /\ stack = <<>> /\ outcome # "RecursionError") =>
        /\ Len(guess_history) = current_round
        /\ \A i \in 1..Len(guess_history) :
                i <= Len(page.rows) /\ guess_history[i][1] = page.rows[i].text

\* C3: in WordleWorkflow.play_round a rejection (the last board record holds
\* a 'u') leaves len(game_state) at its value before the submission, and
\* len(game_state) has grown by exactly 1 when play_round returns.
C3_RoundAddsOneRecord ==
    [][(WW_Attempt /\ outcome' = "running") =>
            IF stack' # <<>>
            THEN Len(guess_history') = Len(guess_history)
            ELSE Len(guess_history') = Len(guess_history) + 1]_vars

\* C4: in Level0WordleAgent.run of level_0_wordle_agent.py, once an accepted
\* result equals 'ccccc' no further guess is requested and no further word
\* is submitted (no play_round call starts), so a win at round 3 leaves
\* guess_history with exactly 3 records.
C4_NoGuessAfterWin ==
    [][(agent = "L0" /\ WinSeen) =>
            /\ Len(stack') <= Len(stack)
            /\ guess_history' = guess_history]_vars

C6_SixthRoundReported ==
    (agent = "L1" /\ outcome # "running" /\ current_round > max_guesses) =>
        outcome = IF Last(guess_history)[2] = ccccc THEN "won" ELSE "lost"

\* C7: when WordleWorkflow.run returns after play_round calls that did not
\* raise, game_status is 'win' exactly when the last record's result is
\* 'ccccc' and 'loss' exactly when game_state holds 6 records and the last
\* result is not 'ccccc'; it is never None, and a win on the sixth guess
\* yields 'win'.
C7_StatusAtReturn ==
    (agent = "WW" /\ outcome = "ended") =>
        /\ guess_history # <<>>
        /\ game_status \in {"win", "loss"}
        /\ game_status = "win" <=> Last(guess_history)[2] = ccccc
        /\ game_status = "loss" <=>
                (Len(guess_history) = 6 /\ Last(guess_history)[2] # ccccc)

C7_Witness ==
    /\ agent = "WW" /\ outcome = "ended"
    /\ Len(guess_history) = 6 /\ Last(guess_history)[2] = ccccc
    /\ game_status = "win"

\* C8: every session of WordleWorkflow.run terminates after a bounded number
\* of word submissions, also when every submission is rejected.
C8_Terminates == <>(outcome # "running")

\* C9: in both agents of src/main.py, in every reachable state, also inside
\* nested retry calls, guess_history holds at most max_guesses records and
\* current_round is at most max_guesses.
C9_RoundBudget ==
    agent \in {"L0Main", "L1Main"} =>
        /\ Len(guess_history) <= max_guesses
        /\ current_round <= max_guesses

C9_Witness ==
    /\ agent = "L0Main"
    /\ stack # <<>> /\ Last(stack).pc = "reread"
    /\ Len(guess_history) = max_guesses /\ current_round = max_guesses

\* C10: in Level1WordleAgent (level_1_wordle_agent.py and src/main.py) no
\* guess_history holds a record whose result contains 'u'.
C10_NoUnknownRecord ==
    agent \in {"L1", "L1Main"} =>
        \A i \in 1..Len(guess_history) : ~Contains(guess_history[i][2], "u")

\* C11: for every 5-character result string over {c, p, a, u},
\* check_game_won and is_game_won return True if and only if every
\* character is 'c'.
C11_WonIffAllCorrect ==
    (agent = "check_game_won" /\ outcome = "returned") =>
        /\ won_ret.check_game_won <=> \A i \in 1..5 : result_str[i] = "c"
        /\ won_ret.is_game_won <=> \A i \in 1..5 : result_str[i] = "c"

C11_Witness ==
    /\ agent = "check_game_won" /\ outcome = "returned"
    /\ result_str = <<"c", "c", "c", "c", "p">>
    /\ ~won_ret.check_game_won /\ ~won_ret.is_game_won

\* a text has the line "ANSWER: crane"
HasAnswerCrane(text) == text # NoContent /\ \E i \in 1..Len(text) : text[i] = Line_AnswerCrane

\* the first line of a text that carries a valid ANSWER: word is "ANSWER: crane"
FirstAnswerIsCrane(text) ==
    /\ text # NoContent
    /\ \E i \in 1..Len(text) :
            /\ text[i] = Line_AnswerCrane
            /\ \A j \in 1..(i - 1) : ~IsAnswerLine(text[j])

\* C12 as stated: every LLM text that has a line "ANSWER: crane", whatever surrounds it, makes call_llm / call_llm_for_guess and WordleWorkflow.parse_llm_response return "crane".
C12_AnswerLineWins ==
    (agent = "guess_word" /\ outcome = "returned" /\ HasAnswerCrane(content)) =>
        /\ parsed.call_llm = crane
        /\ parsed.parse_llm_response = crane

\* C12: every LLM text whose first line carrying a valid ANSWER: word is "ANSWER: crane", whatever else surrounds it, makes call_llm / call_llm_for_guess and WordleWorkflow.parse_llm_response return "crane".
C12_FirstAnswerLineWins ==
    (agent = "guess_word" /\ outcome = "returned" /\ FirstAnswerIsCrane(content)) =>
        /\ parsed.call_llm = crane
        /\ parsed.parse_llm_response = crane
C12_Witness ==
    /\ agent = "guess_word" /\ outcome = "returned"
    /\ content = <<Line_AnswerCrane, Line_AnswerSlate>>
    /\ parsed.call_llm = crane /\ parsed.parse_llm_response = crane

\* no line of a text starts with ANSWER:
NoMarkerLine(text) == \A i \in 1..Len(text) : ~startswith(strip(text[i]), AnswerPrefix)

\* a text has a standalone token of 5 letters
HasToken(text) == \E i \in 1..Len(text) : TokenStarts(text[i]) # {}

\* C13: for an LLM text with no ANSWER: marker line that has a standalone 5-letter alphabetic token, call_llm / call_llm_for_guess and WordleWorkflow.parse_llm_response return the first such token, lowercased.
C13_TokenFallback ==
    (/\ agent = "guess_word" /\ outcome = "returned"
     /\ content # NoContent /\ NoMarkerLine(content) /\ HasToken(content)) =>
        /\ parsed.call_llm = lower(FirstToken(content))
        /\ parsed.parse_llm_response = lower(FirstToken(content))
\* the case of C13: the only line is "I would try Slate."
C13_Witness ==
    /\ agent = "guess_word" /\ outcome = "returned"
    /\ content = <<Line_TrySlate>>
    /\ parsed.call_llm = <<"w", "o", "u", "l", "d">>

\* the LLM call fails: no API key or the request raises, the content is empty, or the text has no valid token (no ANSWER: line with a valid word and no standalone 5-letter token)
CallFails(text) ==
    \/ text = NoContent
    \/ IsEmpty(text)
    \/ (\A i \in 1..Len(text) : ~IsAnswerLine(text[i])) /\ ~HasToken(text)

LowercaseLetters == Keys \cup {"i-diaeresis"}

\* a word of exactly 5 lowercase letters
FiveLowercase(word) == Len(word) = 5 /\ \A i \in 1..5 : word[i] \in LowercaseLetters

\* C15: in every word-selection variant (guess_word of the two Level0WordleAgent and of the workflow script, play_round of the workflow script, WordleWorkflow), the word passed to click_word has length exactly 5 and consists only of lowercase alphabetic letters, for every LLM output.
C15_ClickedWordIsFiveLowercase ==
    (agent = "guess_word" /\ outcome = "returned") =>
        /\ FiveLowercase(parsed.guess_word)
        /\ FiveLowercase(parsed.play_round)
        /\ FiveLowercase(parsed.parse_llm_response)
\* the case of C15: a capitalised word is lowercased before it is clicked
C15_Witness ==
    /\ agent = "guess_word" /\ outcome = "returned"
    /\ content = <<Line_AnswerQuiet>>
    /\ parsed.guess_word = quiet /\ parsed.parse_llm_response = quiet

\* C16: in the structured-action agents a malformed action from the LLM makes run leave its loop reporting the error; run does not end through an unhandled exception.
C16_NoUnhandledException ==
    agent \in StructuredAgents => outcome # "ValueError"

\* the action strings of src/main.py that are malformed: not of the shape tool(...), or of that shape with something other than key="value" / key=123 items in the parentheses
MalformedKinds == {"malformed", "malformed_args"}

\* C17: in Level1WordleAgent of src/main.py a malformed action string makes parse_action signal a parse failure, an unrecognized tool name makes execute_tool signal an unknown-tool failure, and neither signal is produced for the other cause.
C17_DistinctFailureSignals ==
    [][\A r \in L1MainResponses, v \in Verdicts :
            L1Main_StepWith(r, v) =>
                /\ r.kind \in MalformedKinds => outcome' = "ValueError" /\ reason' # "unknown_tool"
                /\ (r.kind = "action" /\ r.tool \notin L1Main_Tools) =>
                        reason' = "unknown_tool" /\ outcome' # "ValueError"]_vars

\* a response that names a tool outside the registry
UnknownTool(r, tools) == r.kind = "action" /\ r.tool \notin tools

C19_BoundedLLMCalls ==
    /\ agent = "L1" => llm_calls <= 50 /\ iteration <= 51
    /\ agent = "L2" => llm_calls <= 50 /\ iteration <= 50
    /\ agent = "L1Main" => llm_calls <= 30 /\ iteration <= 31
\* the case of C19: run of Level1WordleAgent of src/level_1_wordle_agent.py made its 50 calls and left the loop at the ceiling
C19_Witness ==
    /\ agent = "L1" /\ llm_calls = 50 /\ iteration = 51
    /\ reason = "max_iterations" /\ outcome = "none"

\* C20: in Level1WordleAgent.run of src/main.py a session that ends because the iteration ceiling was exceeded, the LLM call failed or a tool returned an error is reported distinctly from a loss: 'Game lost' is reported only when current_round has reached max_guesses without a win.
C20_LostOnlyAfterAllRounds ==
    (agent = "L1Main" /\ outcome = "lost") =>
        /\ current_round >= max_guesses /\ ~game_won
        /\ reason \notin {"max_iterations", "llm_failed"} \cup ToolErrors

\* C21: in Level1WordleAgent of src/main.py game_state changes only by folding in a result the Board Reader returned: game_won is True only if read_game_state returned 'ccccc' during this session, and every record of guess_history holds a result read_game_state returned during this session.
C21_StateFromBoardReads ==
    agent = "L1Main" =>
        /\ game_won => ccccc \in board_reads.results
        /\ \A i \in 1..Len(guess_history) : guess_history[i][2] \in board_reads.results

\* C22: in Level2WordleAgent game_status is 'win' only if read_game_board has returned a row whose result is 'ccccc', and 'loss' only if it has returned six rows none of which is 'ccccc'.
C22_StatusFromBoardReads ==
    agent = "L2" =>
        /\ game_status = "win" => ccccc \in board_reads.results
        /\ game_status = "loss" => board_reads.rows_no_win = NumRows

\* C23: play_round of WordleWorkflow does not raise when the Board Reader finds no complete row (read_game_board returns an empty list): the guess is handled as a rejected submission.
C23_EmptyBoardHandled ==
    agent = "WW" => outcome # "IndexError"

\* C24: read_game_state / read_guess_result returns, for every row_index >= 0 and every number of tiles on the page, a string of exactly 5 characters over {c, p, a, u}, and returns 'uuuuu' whenever fewer than 5*(row_index+1) tiles are present.
C24_FiveResultChars ==
    (agent = "read_game_state" /\ outcome = "returned") =>
        /\ Len(tile_read.result) = 5
        /\ \A i \in 1..Len(tile_read.result) : tile_read.result[i] \in ResultChars
        /\ Len(tile_read.tiles) < 5 * (tile_read.row_index + 1) => tile_read.result = uuuuu
\* the case of C24: row 1 was read from a page with 9 tiles, its row 0 evaluated, and the call returned
C24_Witness ==
    /\ agent = "read_game_state" /\ outcome = "returned"
    /\ tile_read.row_index = 1 /\ Len(tile_read.tiles) = 9
    /\ tile_read.tiles[1] = "correct" /\ tile_read.tiles[2] = "present"
    /\ tile_read.result = uuuuu

\* the selectors click_word is to use for a word: its letters in lower case, then Enter
ExpectedKeys(word) == [i \in 1..(Len(word) + 1) |->
                        IF i <= Len(word) THEN lower_char(word[i]) ELSE EnterKey]
FiveBackspaces == <<BackspaceKey, BackspaceKey, BackspaceKey, BackspaceKey, BackspaceKey>>
\* seq as the selectors of a call
SameKeys(seq, expected) ==
    Len(seq) = Len(expected) /\ \A i \in 1..Len(seq) : seq[i] = expected[i]
\* seq without the selectors the page lacks
FoundOnly(seq, found) == SelectSeq(seq, LAMBDA selector : selector \in found)

\* C25 as stated: click_word(word) emits one key click per letter of the word, in order, followed by exactly one Enter click, and clear_word emits exactly 5 backspace clicks, on every call, including when a key's selector is not found within its wait.
C25_OneClickPerLetter ==
    /\ (agent = "click_word" /\ outcome = "returned") =>
            SameKeys(clicking.clicks, ExpectedKeys(clicking.word))
    /\ (agent = "clear_word" /\ outcome = "returned") =>
            SameKeys(clicking.clicks, FiveBackspaces)

\* C25: click_word(word) calls wait_and_click once per letter of the word, in order, and then exactly once for Enter; clear_word calls it exactly 5 times for backspace; each call whose selector is found emits one click, a call whose selector is not found emits none and the remaining calls are still made.
C25_OneAttemptPerLetter ==
    /\ (agent = "click_word" /\ outcome = "returned") =>
            /\ SameKeys(clicking.attempts, ExpectedKeys(clicking.word))
            /\ SameKeys(clicking.clicks, FoundOnly(ExpectedKeys(clicking.word), clicking.found))
    /\ (agent = "clear_word" /\ outcome = "returned") =>
            /\ SameKeys(clicking.attempts, FiveBackspaces)
            /\ SameKeys(clicking.clicks, FoundOnly(FiveBackspaces, clicking.found))
\* the case of C25: click_word("crane") returned on a page without the key 'c': five letter attempts and Enter, and the clicks r, a, n, e, Enter
C25_Witness ==
    /\ agent = "click_word" /\ outcome = "returned"
    /\ clicking.word = crane /\ clicking.found = Selectors \ {"c"}
    /\ Len(clicking.attempts) = 6
    /\ clicking.clicks = <<"r", "a", "n", "e", EnterKey>>

\* C26: in play_round of src/wordle-ai-workflow/main.py the word submitted to click_word is the word guess_word returned: the parser's validated word when parsing succeeded, the fallback 'slope' otherwise, and no other word.
C26_SubmittedWordIsGuessWord ==
    (agent = "guess_word" /\ outcome = "returned") =>
        /\ parsed.play_round = parsed.guess_word
        /\ parsed.play_round = parsed.call_llm \/ parsed.play_round = slope

\* word is written (in either case) on a line of text that begins with ANSWER:
OnMarkerLine(word, text) ==
    \E i \in 1..Len(text) :
        /\ startswith(strip(text[i]), AnswerPrefix)
        /\ \E k \in 1..(Len(text[i]) - 4) : lower(SubSeq(text[i], k, k + 4)) = word

\* C27: in call_llm of Level0WordleAgent and call_llm_for_guess the whole-text scan for a 5-letter token is used only if the text has no line beginning with 'ANSWER:': when the text has such a line, the word returned, if any, is written on a marker line.
C27_NoScanPastMarker ==
    (/\ agent = "guess_word" /\ outcome = "returned"
     /\ content # NoContent /\ ~NoMarkerLine(content)) =>
        parsed.call_llm = None \/ OnMarkerLine(parsed.call_llm, content)

\* the records of guess_history whose result holds no 'u'
AcceptedRecords ==
    Cardinality({i \in 1..Len(guess_history) : ~Contains(guess_history[i][2], "u")})

\* play_round of Level0WordleAgent is entered next, from run or from the
\* retry loop, and builds its prompt in this state
PromptNext ==
    /\ agent \in {"L0Main", "L0"} /\ outcome = "running"
    /\ \/ stack = <<>> /\ current_round < max_guesses /\ (agent = "L0Main" => ~game_won)
       \/ stack # <<>> /\ HasUnknown(Last(stack).result) /\ Len(stack) < MaxDepth

\* C28: in get_llm_input of Level0WordleAgent (src/main.py and src/level_0_wordle_agent.py) the 'guesses left' number written into the prompt equals max_guesses minus the number of accepted records in guess_history (6 before the first guess, 1 before the sixth).
C28_GuessesLeft ==
    PromptNext => guesses_left = max_guesses - AcceptedRecords

\* the argument list holds text that is neither part of a key="value" / key=123 pair nor a comma or blank between pairs
OutsideGrammar(arg_str) ==
    LET matches == findall(arg_str, 1)
    IN  \E j \in 1..Len(arg_str) :
            /\ arg_str[j] \notin Whitespace \cup {","}
            /\ \A h \in 1..Len(matches) : j < matches[h].start \/ j > matches[h].end

\* C29: parse_action of Level1WordleAgent (src/main.py) signals a parse failure for every action string whose argument list contains text outside the grammar of name="quoted string" or name=integer pairs; it never returns a tool name with such an argument silently dropped.
C29_BadArgumentRaises ==
    (agent = "parse_action" /\ outcome = "returned") => ~OutsideGrammar(action_parse.arg_str)

\* call_llm returned None: the request raised, the content was empty or it could not be parsed
NoResponse == Response("none", "", NoArgs)

\* C30: in the structured-action agents of src/level_1_wordle_agent.py and src/level_2_wordle_agent.py, when call_llm fails run executes no tool on that iteration, leaves game_state / game_status / action_history unchanged, and exits its loop without another LLM call.
C30_LLMFailureAborts ==
    [][/\ \A v \in Verdicts :
            (L1_StepWith(NoResponse, v) \/ L2_StepWith(NoResponse, v)) =>
                /\ reason' = "llm_failed" /\ outcome' = "running"
                /\ UNCHANGED <<page, guess_history, current_round, game_won, game_status,
                               board_reads, action_history>>
       /\ (agent \in {"L1", "L2"} /\ reason = "llm_failed") =>
                /\ outcome' # "running"
                /\ UNCHANGED <<page, guess_history, current_round, game_won, game_status,
                               board_reads, action_history, llm_calls>>]_vars
\* the case of C30: run of Level2WordleAgent clicked a word and read the board, then call_llm failed and run returned with the two entries of action_history and the page as they were
C30_Witness ==
    /\ agent = "L2" /\ outcome = "ended" /\ reason = "llm_failed"
    /\ llm_calls = 3 /\ action_history = 2
    /\ Len(page.rows) = 1 /\ board_reads.results # {} /\ game_status = None

\* C31: run of Level2WordleAgent leaves its loop through the error branch only if the executed tool actually failed: a click_word, clear_word, read_game_board or end_game call that completed without raising never ends the session as an error, whatever its arguments.
C31_ErrorBranchOnlyOnFailure ==
    (agent = "L2" /\ reason \in ToolErrors \cup {"error_in_result"}) => reason \in ToolErrors

\* C32: in play_round of src/wordle-ai-workflow/main.py every record (word, result) of guess_history pairs the result with the word that was typed into a board row and accepted there with that result; the word of a rejected submission is never stored with the result of a later accepted word.
C32_RecordsMatchBoard ==
    agent = "AIW" =>
        \A i \in 1..Len(guess_history) :
            \E r \in 1..Len(page.rows) :
                /\ page.rows[r].text = guess_history[i][1]
                /\ read_game_state(page, r - 1) = guess_history[i][2]

\* C33: in Level1WordleAgent.run of src/main.py, whenever the loop exits through the 'Game won!' branch (the check_game_won tool returned a win), the final summary reports the game as won and not as lost.
C33_WonBranchReportsWon ==
    (agent = "L1Main" /\ reason = "game_won_tool" /\ outcome # "running") => outcome = "won"

\* C34: in Level1WordleAgent.run of src/level_1_wordle_agent.py the number reported in 'Game won in N guesses' equals the number of accepted submissions made up to and including the winning one.
C34_WonInAcceptedGuesses ==
    (agent = "L1" /\ outcome = "won") => won_in_guesses = Len(page.rows)

\* the statuses end_game accepts
GameStatuses == {"win", "loss"}

\* C35: in Level2WordleAgent and WordleWorkflow game_status is always one of None, 'win', 'loss'; end_game called with any other status leaves game_status unchanged, and in Level2WordleAgent.run the loop then goes on (no break is taken) instead of ending the session.
C35_OtherStatusIgnored ==
    /\ game_status \in {None} \cup GameStatuses
    /\ [][/\ game_status' \in {None} \cup GameStatuses
          /\ \A r \in L2Responses, v \in Verdicts :
                (/\ r.kind = "action" /\ r.tool = "end_game"
                 /\ "status" \in r.args.keys /\ r.args.status \notin GameStatuses
                 /\ L2_StepWith(r, v)) =>
                    /\ UNCHANGED game_status
                    /\ reason' = "none" /\ outcome' = "running"]_vars

\* the responses that name end_game with a status it accepts
EndGameResponses ==
    {r \in L2Responses : /\ r.kind = "action" /\ r.tool = "end_game"
                         /\ "status" \in r.args.keys /\ r.args.status \in GameStatuses}

\* C36: in Level2WordleAgent.run, once game_status has been set to 'win' or 'loss' no further LLM call is made and no further tool is executed; action_history then holds exactly one entry per loop iteration performed, the last being the end_game action (the step that sets game_status is the one that executes end_game and appends its entry).
C36_EndGameIsLast ==
    [][agent = "L2" =>
        /\ (game_status = None /\ game_status' # None) =>
               /\ \E r \in EndGameResponses, v \in Verdicts : L2_StepWith(r, v)
               /\ action_history' = action_history + 1
               /\ action_history' = iteration'
        /\ game_status # None =>
               UNCHANGED <<llm_calls, histvars, page, game_status, iteration>>]_vars
\* the case of C36: run clicked a word, read the board, ended the game as won and returned; three iterations, three LLM calls, three entries
C36_Witness ==
    /\ agent = "L2" /\ outcome = "ended" /\ reason = "game_status"
    /\ game_status = "win" /\ Len(page.rows) = 1 /\ board_reads.results # {}
    /\ iteration = 3 /\ llm_calls = 3 /\ action_history = 3

====
